---- MODULE Spec2Model ----
(***************************************************************************)
(* Model of YGOpen::DuelBoard (src/src/client/board.hpp): a reversible     *)
(* duel-state replay engine.  The board interprets a log of messages in    *)
(* both directions; every attribute is a Sequential (a std::list plus an   *)
(* iterator).                                                              *)
(***************************************************************************)
EXTENDS Integers, Sequences, FiniteSets, TLC

VARIABLES
    msgs,            \* std::vector<Core::AnyMsg> msgs
    state,           \* uint32_t state
    processedState,  \* uint32_t processedState
    realtime,        \* bool realtime
    advancing,       \* bool advancing
    turn,            \* uint32_t turn
    playerLP,        \* std::array<Sequential<uint32_t>, 2> playerLP
    turnPlayer,      \* Sequential<uint32_t> turnPlayer
    phase,           \* Sequential<uint32_t> phase
    deck, hand, grave, rmp, eDeck,   \* std::array<Pile<C>, 2> (LOCATIONS())
    fieldZones,      \* std::map<Place, Card> fieldZones
    disabledZones,   \* std::map<Place, Sequential<bool, false>> disabledZones
    tempCards,       \* std::map<TempPlace, Card> tempCards
    nextId,          \* history: identity given to the next constructed card
    maxState,        \* history: largest value `state` has had
    outcome,         \* how the last call ended: "ok", "threw" or "aborted"
    ub               \* undefined operations performed by the last call

cursorVars == <<msgs, state, processedState, realtime, advancing>>
boardVars == <<turn, playerLP, turnPlayer, phase, deck, hand, grave, rmp,
               eDeck, fieldZones, disabledZones, tempCards, nextId>>
vars == <<cursorVars, boardVars, maxState, outcome, ub>>

-----------------------------------------------------------------------------
(* Bounds of the model.                                                    *)

\* longest message log explored
MaxMsgs == 3

\* longest message log explored by the specifications of few messages
MaxMsgsLong == 4

\* longest history of a disabledZones cell (re-walking a DisableZones
\* message appends to it each time)
MaxHistory == 4

-----------------------------------------------------------------------------
(* 32-bit unsigned values whose arithmetic can wrap (life points, amounts) *)
(* are pairs <<high 16 bits, low 16 bits>>.                                *)

Half == 2 ^ 16

U32(hi, lo) == <<hi, lo>>

U32Zero == U32(0, 0)

\* a - b modulo 2^32
U32Sub(a, b) ==
    LET borrow == IF a[2] < b[2] THEN 1 ELSE 0
    IN  U32((a[1] - b[1] - borrow) % Half, (a[2] - b[2]) % Half)

\* a + b modulo 2^32
U32Add(a, b) ==
    LET carry == IF a[2] + b[2] >= Half THEN 1 ELSE 0
    IN  U32((a[1] + b[1] + carry) % Half, (a[2] + b[2]) % Half)

\* a < b as unsigned values
U32Less(a, b) == a[1] < b[1] \/ (a[1] = b[1] /\ a[2] < b[2])

\* the value converted to int32_t is negative: bit 31 is set
I32Negative(a) == a[1] >= Half \div 2

-----------------------------------------------------------------------------
(* Sequential<T, def>: the list l and the iterator it.  it is the 1-based  *)
(* position of the element the iterator points at; 0 is l.end(), the       *)
(* list's sentinel node, which follows the last element and precedes the   *)
(* first one in the circular list.                                         *)

Sequential(def) == [l |-> <<def>>, it |-> 1]

\* void AddOrNext(bool add, const T& v)
AddOrNext(s, add, v) ==
    LET nl == IF add THEN Append(s.l, v) ELSE s.l
    IN  [l |-> nl, it |-> (s.it + 1) % (Len(nl) + 1)]

\* void Prev()
Prev(s) == [s EXCEPT !.it = (s.it - 1) % (Len(s.l) + 1)]

\* const T& operator()(): the element at the iterator; dereferencing
\* l.end() reads whatever the sentinel node holds (garbage)
Get(s, garbage) == IF s.it = 0 THEN garbage ELSE s.l[s.it]

\* it++ on l.end() is undefined
IncUndefined(s) == s.it = 0
\* it-- on l.begin() is undefined
DecUndefined(s) == s.it = 1 \/ Len(s.l) = 0
\* *it on l.end() is undefined
DerefUndefined(s) == s.it = 0

\* a Sequential whose list has been moved away (std::move of the card)
MovedFromSequential == [l |-> <<>>, it |-> 0]

-----------------------------------------------------------------------------
(* Enumerations of ../common/enums (location.hpp, position.hpp).  A        *)
(* location is a bitmask; it is modelled as the set of its bits.           *)

LocationMainDeck == {"MainDeck"}
LocationHand == {"Hand"}
LocationGraveyard == {"Graveyard"}
LocationBanished == {"Banished"}
LocationExtraDeck == {"ExtraDeck"}
LocationMonsterZone == {"MonsterZone"}
LocationSpellZone == {"SpellZone"}
LocationOverlay == {"Overlay"}
LocationOnField == {"MonsterZone", "SpellZone"}
LocationFieldZone == {"FieldZone"}
LocationPendulumZone == {"PendulumZone"}

PositionFaceUpAttack == 1
PositionFaceDown == 10

\* static inline bool IsPile(const uint32_t location)
IsPileLocation(location) ==
    (LocationMonsterZone \cup LocationSpellZone \cup LocationOverlay \cup
     LocationOnField \cup LocationFieldZone \cup LocationPendulumZone)
        \cap location = {}

\* Place: <<controller, location, sequence, overlay_sequence>>
\* static inline bool IsPile(const Place& place)
IsPile(place) == IsPileLocation(place[2])

\* static Place PlaceFromProtobufPlace(const Core::Data::Place& p)
PlaceFromProtobufPlace(p) == <<p.controller, p.location, p.sequence, -1>>

\* static Place PlaceFromCardInfo(const Core::Data::CardInfo& cd)
PlaceFromCardInfo(cd) ==
    <<cd.controller, cd.location, cd.sequence,
      IF cd.location \cap LocationOverlay # {} THEN cd.overlay_sequence ELSE -1>>

\* static Counter CounterFromProtobufCounter(const Core::Data::Counter& c)
CounterFromProtobufCounter(c) == <<c.type, c.count>>

\* a key that leaves the message index out
TempPlaceStateless(st, place) == <<0, place[1], place[2], place[3], place[4]>>

\* std::tuple_cat(std::tie(state), place)
TempPlace(st, place) == <<st, place[1], place[2], place[3], place[4]>>

-----------------------------------------------------------------------------
(* struct Card.  id is the identity of the C++ object's contents: 0 for a  *)
(* default-constructed or moved-from card, positive for a card that was    *)
(* seeded by FillPile or created by a realtime AddCard.                    *)

EmptyMap == [x \in {} |-> x]

CellNames == {"pos", "code", "alias", "type", "level", "rank", "attr", "race",
              "atk", "def", "bAtk", "bDef", "owner", "lscale", "rscale", "links"}

\* the cells declared Sequential<int32_t>: their sentinel is -1
SignedCells == {"level", "atk", "def", "bAtk", "bDef"}

Card ==
    [id |-> 0,
     pos |-> Sequential(0), code |-> Sequential(0), alias |-> Sequential(0),
     type |-> Sequential(0), level |-> Sequential(-1), rank |-> Sequential(0),
     attr |-> Sequential(0), race |-> Sequential(0), atk |-> Sequential(-1),
     def |-> Sequential(-1), bAtk |-> Sequential(-1), bDef |-> Sequential(-1),
     owner |-> Sequential(0), lscale |-> Sequential(0),
     rscale |-> Sequential(0), links |-> Sequential(0),
     counters |-> EmptyMap]

\* what std::move leaves behind: empty lists, an empty counter map
MovedFromCard ==
    [id |-> 0,
     pos |-> MovedFromSequential, code |-> MovedFromSequential,
     alias |-> MovedFromSequential, type |-> MovedFromSequential,
     level |-> MovedFromSequential, rank |-> MovedFromSequential,
     attr |-> MovedFromSequential, race |-> MovedFromSequential,
     atk |-> MovedFromSequential, def |-> MovedFromSequential,
     bAtk |-> MovedFromSequential, bDef |-> MovedFromSequential,
     owner |-> MovedFromSequential, lscale |-> MovedFromSequential,
     rscale |-> MovedFromSequential, links |-> MovedFromSequential,
     counters |-> EmptyMap]

-----------------------------------------------------------------------------
(* The board as one value, so that the handlers are functions on it.       *)
(* stop: "threw" while a std::exception is propagating, "out_of_range"     *)
(* after an access outside a vector; the statements that follow are not    *)
(* executed.  ub: the undefined operations performed.                      *)

Board ==
    [turn |-> turn, playerLP |-> playerLP, turnPlayer |-> turnPlayer,
     phase |-> phase, deck |-> deck, hand |-> hand, grave |-> grave,
     rmp |-> rmp, eDeck |-> eDeck, fieldZones |-> fieldZones,
     disabledZones |-> disabledZones, tempCards |-> tempCards,
     nextId |-> nextId, stop |-> "", ub |-> {}]

Throw(b) == [b EXCEPT !.stop = "threw"]

Undefined(b, what) == [b EXCEPT !.ub = @ \cup {what}]

\* an access outside a vector: nothing is known of the statements after it
OutOfRange(b) == [b EXCEPT !.ub = @ \cup {"out_of_range"},
                           !.stop = "out_of_range"]

\* the switch of GetPile(controller, location): the member the location names
PileName(location) ==
    CASE location = LocationMainDeck -> "deck"
      [] location = LocationHand -> "hand"
      [] location = LocationGraveyard -> "grave"
      [] location = LocationBanished -> "rmp"
      [] location = LocationExtraDeck -> "eDeck"
      [] OTHER -> "none"

\* Pile<C>& GetPile(uint32_t controller, uint32_t location)
GetPile(b, controller, location) == b[PileName(location)][controller]

\* GetPile throws std::exception() for any other location
GetPileThrows(location) == PileName(location) = "none"

SetPile(b, controller, location, pile) ==
    [b EXCEPT ![PileName(location)][controller] = pile]

\* vector::emplace(begin() + i, x) and vector::erase(begin() + i), i 0-based
InsertAt(pile, i, x) ==
    SubSeq(pile, 1, i) \o <<x>> \o SubSeq(pile, i + 1, Len(pile))

EraseAt(pile, i) == SubSeq(pile, 1, i) \o SubSeq(pile, i + 2, Len(pile))

\* std::map::erase(key)
MapErase(m, key) == [k \in DOMAIN m \ {key} |-> m[k]]

\* std::map::operator[] used as an lvalue: inserts a default value when absent
MapTouch(m, key, default) ==
    IF key \in DOMAIN m THEN m ELSE (key :> default) @@ m

\* std::map::emplace(key, value): no effect when the key is present
MapEmplace(m, key, value) ==
    IF key \in DOMAIN m THEN m ELSE (key :> value) @@ m

\* a C& : the pile slot or the fieldZones entry a reference designates
PileRef(place) == [pile |-> TRUE, place |-> place]
FieldRef(place) == [pile |-> FALSE, place |-> place]

RefValid(b, r) ==
    IF r.pile
    THEN /\ ~GetPileThrows(r.place[2])
         /\ r.place[3] >= 0
         /\ r.place[3] < Len(GetPile(b, r.place[1], r.place[2]))
    ELSE r.place \in DOMAIN b.fieldZones

CardAt(b, r) ==
    IF r.pile THEN GetPile(b, r.place[1], r.place[2])[r.place[3] + 1]
    ELSE b.fieldZones[r.place]

PutCard(b, r, c) ==
    IF r.pile
    THEN [b EXCEPT ![PileName(r.place[2])][r.place[1]][r.place[3] + 1] = c]
    ELSE [b EXCEPT !.fieldZones[r.place] = c]

\* card.<cell>.AddOrNext(add, v) through a reference
CellAddOrNext(b, r, cell, add, v) ==
    IF b.stop # "" THEN b
    ELSE IF ~RefValid(b, r) THEN OutOfRange(b)
    ELSE LET c == CardAt(b, r)
             b1 == IF IncUndefined(c[cell]) THEN Undefined(b, "increment_end")
                   ELSE b
         IN  PutCard(b1, r, [c EXCEPT ![cell] = AddOrNext(@, add, v)])

\* card.<cell>.Prev() through a reference
CellPrev(b, r, cell) ==
    IF b.stop # "" THEN b
    ELSE IF ~RefValid(b, r) THEN OutOfRange(b)
    ELSE LET c == CardAt(b, r)
             b1 == IF DecUndefined(c[cell]) THEN Undefined(b, "decrement_begin")
                   ELSE b
         IN  PutCard(b1, r, [c EXCEPT ![cell] = Prev(@)])

\* C& GetCard(const Place& place): the board after the lookup (operator[] of
\* fieldZones inserts a default card at an empty place) and the reference
GetCard(b, place) ==
    IF b.stop # "" THEN [board |-> b, ref |-> FieldRef(place)]
    ELSE IF IsPile(place)
    THEN [board |-> IF GetPileThrows(place[2]) THEN Throw(b) ELSE b,
          ref |-> PileRef(place)]
    ELSE [board |-> [b EXCEPT !.fieldZones = MapTouch(@, place, Card)],
          ref |-> FieldRef(place)]

\* C& ClearAllCounters(C& card)
ClearAllCounters(b, r, cx) ==
    IF b.stop # "" THEN b
    ELSE IF ~RefValid(b, r) THEN OutOfRange(b)
    ELSE LET c == CardAt(b, r)
             types == DOMAIN c.counters
             bad == IF cx.advancing
                    THEN IF \E t \in types : IncUndefined(c.counters[t])
                         THEN {"increment_end"} ELSE {}
                    ELSE IF \E t \in types : DecUndefined(c.counters[t])
                         THEN {"decrement_begin"} ELSE {}
             nc == [t \in types |->
                      IF cx.advancing
                      THEN AddOrNext(c.counters[t], cx.realtime, 0)
                      ELSE Prev(c.counters[t])]
         IN  PutCard([b EXCEPT !.ub = @ \cup bad], r,
                     [c EXCEPT !.counters = nc])

\* C& MoveSingle(const Place& from, const Place& to)
MoveSingle(b, from, to, cx) ==
    IF b.stop # "" THEN [board |-> b, ref |-> FieldRef(to)]
    ELSE IF from = to THEN [board |-> Throw(b), ref |-> FieldRef(to)]
    ELSE IF IsPile(from) /\ IsPile(to)
    THEN IF GetPileThrows(from[2]) \/ GetPileThrows(to[2])
         THEN [board |-> Throw(b), ref |-> PileRef(to)]
         ELSE LET fromPile == GetPile(b, from[1], from[2])
                  toPile == GetPile(b, to[1], to[2])
              IN  IF from[3] >= Len(fromPile) \/ to[3] > Len(toPile)
                  THEN [board |-> OutOfRange(b),
                        ref |-> PileRef(to)]
                  ELSE LET moved == fromPile[from[3] + 1]
                           \* std::move(fromPile[from]) empties the slot
                           b1 == PutCard(b, PileRef(from), MovedFromCard)
                           \* toPile.emplace(toPile.begin() + to, ...)
                           b2 == SetPile(b1, to[1], to[2],
                                   InsertAt(GetPile(b1, to[1], to[2]), to[3],
                                            moved))
                           \* fromPile.erase(fromPile.begin() + from)
                           b3 == SetPile(b2, from[1], from[2],
                                   EraseAt(GetPile(b2, from[1], from[2]),
                                           from[3]))
                       IN  [board |-> b3, ref |-> PileRef(to)]
    ELSE IF IsPile(from) /\ ~IsPile(to)
    THEN IF GetPileThrows(from[2])
         THEN [board |-> Throw(b), ref |-> FieldRef(to)]
         ELSE LET fromPile == GetPile(b, from[1], from[2])
              IN  IF from[3] >= Len(fromPile)
                  THEN [board |-> OutOfRange(b),
                        ref |-> FieldRef(to)]
                  ELSE LET moved == fromPile[from[3] + 1]
                           \* fieldZones[to] = std::move(fromPile[from])
                           b1 == [b EXCEPT !.fieldZones =
                                    (to :> moved) @@ @]
                           b2 == SetPile(b1, from[1], from[2],
                                   EraseAt(fromPile, from[3]))
                       IN  [board |-> ClearAllCounters(b2, FieldRef(to), cx),
                            ref |-> FieldRef(to)]
    ELSE IF ~IsPile(from) /\ IsPile(to)
    THEN IF GetPileThrows(to[2])
         THEN [board |-> Throw(b), ref |-> PileRef(to)]
         ELSE LET toPile == GetPile(b, to[1], to[2])
                  \* fieldZones[from] inserts a default card when absent
                  moved == MapTouch(b.fieldZones, from, Card)[from]
              IN  IF to[3] > Len(toPile)
                  THEN [board |-> OutOfRange(b),
                        ref |-> PileRef(to)]
                  ELSE LET b1 == SetPile(b, to[1], to[2],
                                   InsertAt(toPile, to[3], moved))
                           b2 == [b1 EXCEPT !.fieldZones = MapErase(@, from)]
                       IN  [board |-> ClearAllCounters(b2, PileRef(to), cx),
                            ref |-> PileRef(to)]
    ELSE LET moved == MapTouch(b.fieldZones, from, Card)[from]
             \* fieldZones[to] = std::move(fieldZones[from])
             b1 == [b EXCEPT !.fieldZones = MapErase((to :> moved) @@ @, from)]
         IN  [board |-> b1, ref |-> FieldRef(to)]

-----------------------------------------------------------------------------
(* The handlers.  info is the message's Information value; cx carries      *)
(* realtime, advancing, state (the index of the message being interpreted) *)
(* and garbage, the value an undefined read yields.                        *)

\* c.code.AddOrNext(realtime, code); c.pos.AddOrNext(realtime, position)
\* on the card a lookup or a move returned (g.board, g.ref)
AdvanceCodePos(g, code, position, cx) ==
    CellAddOrNext(CellAddOrNext(g.board, g.ref, "code", cx.realtime, code),
                  g.ref, "pos", cx.realtime, position)

\* c.code.Prev(); c.pos.Prev() on the card a lookup returned
RetreatCodePos(g) == CellPrev(CellPrev(g.board, g.ref, "code"), g.ref, "pos")

\* tempCards.emplace(t, std::move(card)) and the erasure of the card's slot
MoveToTemp(b, t, r) ==
    IF r.pile
    THEN SetPile([b EXCEPT !.tempCards = MapEmplace(@, t, CardAt(b, r))],
                 r.place[1], r.place[2],
                 EraseAt(GetPile(b, r.place[1], r.place[2]), r.place[3]))
    ELSE [b EXCEPT !.tempCards = MapEmplace(@, t, CardAt(b, r)),
                   !.fieldZones = MapErase(@, r.place)]

\* HANDLE(UpdateCard)
HandleUpdateCard(b, info, cx) ==
    LET previousInfo == info.previous
        currentInfo == info.current
        reason == info.reason
        previous == PlaceFromCardInfo(previousInfo)
        current == PlaceFromCardInfo(currentInfo)
        \* *(pile.rbegin() - previousInfo.sequence())
        top == IF GetPileThrows(previous[2]) THEN PileRef(previous)
               ELSE PileRef(<<previous[1], previous[2],
                              Len(GetPile(b, previous[1], previous[2])) - 1
                                + previousInfo.sequence, -1>>)
    IN  IF cx.advancing
        THEN IF reason = "DECK_TOP"
             THEN IF GetPileThrows(previous[2]) THEN Throw(b)
                  ELSE CellAddOrNext(b, top, "code", cx.realtime,
                                     currentInfo.code)
             ELSE IF reason = "MOVE"
             THEN AdvanceCodePos(MoveSingle(b, previous, current, cx),
                                 currentInfo.code, currentInfo.position, cx)
             ELSE AdvanceCodePos(GetCard(b, previous),
                                 currentInfo.code, currentInfo.position, cx)
        ELSE IF reason = "DECK_TOP"
             THEN IF GetPileThrows(previous[2]) THEN Throw(b)
                  ELSE CellPrev(b, top, "code")
             ELSE IF reason = "MOVE"
             THEN MoveSingle(RetreatCodePos(GetCard(b, current)),
                             current, previous, cx).board
             ELSE RetreatCodePos(GetCard(b, previous))

\* a lookup in tempCards that yields a default-constructed card
TempCardDefault(b, t) == Card

\* the card stored under a tempCards key (operator[] inserts a default card
\* when the key is absent)
TempCard(b, t) == MapTouch(b.tempCards, t, Card)[t]

\* HANDLE(AddCard)
HandleAddCard(b, info, cx) ==
    LET cardInfo == info.card
        place == PlaceFromCardInfo(cardInfo)
        t == TempPlace(cx.state, place)
        new == IF cx.realtime THEN [Card EXCEPT !.id = b.nextId]
               ELSE TempCard(b, t)
        \* the bookkeeping of the card's origin: a new identity, or the
        \* tempCards entry it is taken from
        taken == IF cx.realtime
                 THEN IF ~IsPile(place) /\ place \in DOMAIN b.fieldZones
                      THEN b
                      ELSE [b EXCEPT !.nextId = @ + 1]
                 ELSE [b EXCEPT !.tempCards = MapErase(@, t)]
    IN  IF cx.advancing
        THEN IF IsPile(place)
             THEN IF GetPileThrows(place[2]) THEN Throw(b)
                  ELSE IF place[3] > Len(GetPile(b, place[1], place[2]))
                  THEN OutOfRange(b)
                  ELSE AdvanceCodePos(
                         [board |->
                            SetPile(taken, place[1], place[2],
                                    InsertAt(GetPile(b, place[1], place[2]),
                                             place[3], new)),
                          ref |-> PileRef(place)],
                         cardInfo.code, cardInfo.position, cx)
             ELSE \* fieldZones.emplace(place, ...)
                  AdvanceCodePos(
                    [board |-> [taken EXCEPT !.fieldZones =
                                  MapEmplace(@, place, new)],
                     ref |-> FieldRef(place)],
                    cardInfo.code, cardInfo.position, cx)
        ELSE IF IsPile(place)
             THEN IF GetPileThrows(place[2]) THEN Throw(b)
                  ELSE IF place[3] >= Len(GetPile(b, place[1], place[2]))
                  THEN OutOfRange(b)
                  ELSE MoveToTemp(RetreatCodePos([board |-> b,
                                                  ref |-> PileRef(place)]),
                                  t, PileRef(place))
             ELSE MoveToTemp(RetreatCodePos(GetCard(b, place)), t,
                             FieldRef(place))

\* HANDLE(RemoveCard)
HandleRemoveCard(b, info, cx) ==
    LET place == PlaceFromCardInfo(info.card)
        t == TempPlace(cx.state, place)
    IN  IF cx.advancing
        THEN IF IsPile(place)
             THEN IF GetPileThrows(place[2]) THEN Throw(b)
                  ELSE LET pile == GetPile(b, place[1], place[2])
                       IN  IF place[3] >= Len(pile)
                           THEN OutOfRange(b)
                           ELSE SetPile(
                                  [b EXCEPT !.tempCards =
                                     MapEmplace(@, t, pile[place[3] + 1])],
                                  place[1], place[2], EraseAt(pile, place[3]))
             ELSE LET card == MapTouch(b.fieldZones, place, Card)[place]
                  IN  [b EXCEPT !.tempCards = MapEmplace(@, t, card),
                                !.fieldZones = MapErase(@, place)]
        ELSE IF IsPile(place)
             THEN IF GetPileThrows(place[2]) THEN Throw(b)
                  ELSE LET pile == GetPile(b, place[1], place[2])
                       IN  IF place[3] > Len(pile)
                           THEN OutOfRange(b)
                           ELSE SetPile(
                                  [b EXCEPT !.tempCards = MapErase(@, t)],
                                  place[1], place[2],
                                  InsertAt(pile, place[3], TempCard(b, t)))
             ELSE [b EXCEPT !.fieldZones = MapEmplace(@, place, TempCard(b, t)),
                            !.tempCards = MapErase(@, t)]

\* the last n elements of a vector in the vector's order
LastInOrder(pile, n) == SubSeq(pile, Len(pile) - n + 1, Len(pile))

\* the last n elements of a vector, last element first (rbegin() .. rbegin()+n)
LastReversed(pile, n) == [i \in 1..n |-> pile[Len(pile) + 1 - i]]

\* HANDLE(Draw)
HandleDraw(b, info, cx) ==
    LET cards == info.cards
        player == info.player
        n == Len(cards)
        handSz == Len(b.hand[player])
    IN  IF cx.advancing
        THEN IF n > Len(b.deck[player]) THEN OutOfRange(b)
             ELSE LET moved == LastReversed(b.deck[player], n)
                      bad == \E i \in 1..n : IncUndefined(moved[i].code)
                      coded == [i \in 1..n |->
                                  [moved[i] EXCEPT !.code =
                                     AddOrNext(@, cx.realtime, cards[i].code)]]
                      b1 == [b EXCEPT
                               !.hand[player] = @ \o coded,
                               !.deck[player] = SubSeq(@, 1, Len(@) - n)]
                  IN  IF bad THEN Undefined(b1, "increment_end") ELSE b1
        ELSE IF n > handSz THEN OutOfRange(b)
             ELSE LET bad == \E i \in 1..n :
                                 DecUndefined(b.hand[player][handSz + 1 - i].code)
                      retreated == [i \in 1..handSz |->
                                      IF i > handSz - n
                                      THEN [b.hand[player][i] EXCEPT
                                              !.code = Prev(@)]
                                      ELSE b.hand[player][i]]
                      b1 == [b EXCEPT
                               !.deck[player] = @ \o LastReversed(retreated, n),
                               !.hand[player] = SubSeq(retreated, 1, handSz - n)]
                  IN  IF bad THEN Undefined(b1, "decrement_begin") ELSE b1

\* the last statement of HANDLE(SwapCards): tmp is placed at card2Place
PlaceTmp(b, card2Place, tmp) ==
    IF b.stop # "" THEN b
    ELSE IF IsPile(card2Place)
    THEN IF card2Place[3] > Len(GetPile(b, card2Place[1], card2Place[2]))
         THEN OutOfRange(b)
         ELSE SetPile(b, card2Place[1], card2Place[2],
                      InsertAt(GetPile(b, card2Place[1], card2Place[2]),
                               card2Place[3], tmp))
    ELSE [b EXCEPT !.fieldZones = (card2Place :> tmp) @@ @]

\* HANDLE(SwapCards)
HandleSwapCards(b, info, cx) ==
    LET card1Place == PlaceFromCardInfo(info.card1)
        card2Place == PlaceFromCardInfo(info.card2)
        \* tmp = std::move(...), then erase
        tmp == IF IsPile(card1Place)
               THEN GetPile(b, card1Place[1], card1Place[2])[card1Place[3] + 1]
               ELSE MapTouch(b.fieldZones, card1Place, Card)[card1Place]
        b1 == IF IsPile(card1Place)
              THEN SetPile(b, card1Place[1], card1Place[2],
                           EraseAt(GetPile(b, card1Place[1], card1Place[2]),
                                   card1Place[3]))
              ELSE [b EXCEPT !.fieldZones = MapErase(@, card1Place)]
    IN  IF IsPile(card1Place) /\ GetPileThrows(card1Place[2]) THEN Throw(b)
        ELSE IF IsPile(card1Place) /\
                card1Place[3] >= Len(GetPile(b, card1Place[1], card1Place[2]))
        THEN OutOfRange(b)
        ELSE PlaceTmp(MoveSingle(b1, card2Place, card1Place, cx).board,
                      card2Place, tmp)

\* HANDLE(ShuffleLocation)
HandleShuffleLocation(b, info, cx) ==
    LET shuffledCards == info.shuffled_cards
        pile == GetPile(b, info.player, info.location)
        n == Len(pile)
    IN  IF GetPileThrows(info.location) THEN Throw(b)
        ELSE IF cx.advancing
        THEN IF shuffledCards # <<>> /\ Len(shuffledCards) < n
             THEN OutOfRange(b)
             ELSE LET bad == \E i \in 1..n : IncUndefined(pile[i].code)
                      np == [i \in 1..n |->
                               [pile[i] EXCEPT !.code =
                                  AddOrNext(@, cx.realtime,
                                            IF shuffledCards # <<>>
                                            THEN shuffledCards[i].code
                                            ELSE 0)]]
                      b1 == SetPile(b, info.player, info.location, np)
                  IN  IF bad THEN Undefined(b1, "increment_end") ELSE b1
        ELSE LET bad == \E i \in 1..n : DecUndefined(pile[i].code)
                 np == [i \in 1..n |-> [pile[i] EXCEPT !.code = Prev(@)]]
                 b1 == SetPile(b, info.player, info.location, np)
             IN  IF bad THEN Undefined(b1, "decrement_begin") ELSE b1

\* the loop body of HANDLE(ShuffleSetCards), for the cards i..size
RECURSIVE ShuffleSetFrom(_, _, _, _)
ShuffleSetFrom(b, info, cx, i) ==
    IF i > Len(info.cards_previous) \/ b.stop # "" THEN b
    ELSE LET prev == info.cards_previous[i]
             \* auto& c = fieldZones[PlaceFromCardInfo(cardsPrevious[i])]
             place == PlaceFromCardInfo(prev)
             b0 == [b EXCEPT !.fieldZones = MapTouch(@, place, Card)]
             r == FieldRef(place)
             b1 == IF cx.advancing
                   THEN IF info.cards_current # <<>>
                        THEN IF i > Len(info.cards_current) THEN OutOfRange(b0)
                             ELSE CellAddOrNext(
                                    CellAddOrNext(b0, r, "code", cx.realtime,
                                                  info.cards_current[i].code),
                                    r, "pos", cx.realtime,
                                    info.cards_current[i].position)
                        ELSE CellAddOrNext(
                               CellAddOrNext(b0, r, "code", cx.realtime, 0),
                               r, "pos", cx.realtime, prev.position)
                   ELSE CellPrev(CellPrev(b0, r, "code"), r, "pos")
         IN  ShuffleSetFrom(b1, info, cx, i + 1)

\* HANDLE(ShuffleSetCards)
HandleShuffleSetCards(b, info, cx) == ShuffleSetFrom(b, info, cx, 1)

\* the body of AddCounter on the card GetCard(place) returned
AddCounterTo(g, counter, cx) ==
    IF g.board.stop # "" THEN g.board
    ELSE IF ~RefValid(g.board, g.ref) THEN OutOfRange(g.board)
    ELSE LET c == CardAt(g.board, g.ref)
             found == counter[1] \in DOMAIN c.counters
             old == IF found THEN c.counters[counter[1]] ELSE Sequential(0)
             v == IF found THEN Get(old, cx.garbage) + counter[2]
                  ELSE counter[2]
             bad == (IF found /\ DerefUndefined(old)
                     THEN {"dereference_end"} ELSE {})
                    \cup (IF IncUndefined(old)
                          THEN {"increment_end"} ELSE {})
             new == AddOrNext(old, cx.realtime, v)
         IN  PutCard([g.board EXCEPT !.ub = @ \cup bad], g.ref,
                     [c EXCEPT !.counters = (counter[1] :> new) @@ @])

\* void AddCounter(const Place& place, const Counter& counter)
AddCounter(b, place, counter, cx) == AddCounterTo(GetCard(b, place), counter, cx)

\* the body of RemoveCounter on the card GetCard(place) returned
RemoveCounterFrom(g, counter) ==
    IF g.board.stop # "" THEN g.board
    ELSE IF ~RefValid(g.board, g.ref) THEN OutOfRange(g.board)
    ELSE LET c == CardAt(g.board, g.ref)
             \* counters[type] inserts a Sequential when absent
             old == MapTouch(c.counters, counter[1],
                             Sequential(0))[counter[1]]
             bad == IF DecUndefined(old) THEN {"decrement_begin"} ELSE {}
         IN  PutCard([g.board EXCEPT !.ub = @ \cup bad], g.ref,
                     [c EXCEPT !.counters = (counter[1] :> Prev(old)) @@ @])

\* void RemoveCounter(const Place& place, const Counter& counter)
RemoveCounter(b, place, counter, cx) ==
    RemoveCounterFrom(GetCard(b, place), counter)

\* HANDLE(CounterChange)
HandleCounterChange(b, info, cx) ==
    LET counter == CounterFromProtobufCounter(info.counter)
        place == PlaceFromProtobufPlace(info.place)
    IN  IF cx.advancing
        THEN IF info.type = "CHANGE_ADD" THEN AddCounter(b, place, counter, cx)
             ELSE RemoveCounter(b, place, counter, cx)
        ELSE IF info.type = "CHANGE_ADD"
             THEN RemoveCounter(b, place, counter, cx)
             ELSE AddCounter(b, place, counter, cx)

\* HANDLE(DisableZones); info.places is the repeated field as a set
HandleDisableZones(b, info, cx) ==
    LET zones == DOMAIN b.disabledZones
    IN  IF cx.advancing
        THEN LET synced == IF ~cx.realtime
                           THEN [z \in zones |->
                                   AddOrNext(b.disabledZones[z], FALSE, FALSE)]
                           ELSE b.disabledZones
                 tmpSet == {PlaceFromProtobufPlace(p) : p \in info.places}
                 bad == \E z \in zones : \/ IncUndefined(synced[z])
                                         \/ (~cx.realtime /\
                                             IncUndefined(b.disabledZones[z]))
                 b1 == [b EXCEPT !.disabledZones =
                          [z \in zones |->
                             AddOrNext(synced[z], TRUE, z \in tmpSet)]]
             IN  IF bad THEN Undefined(b1, "increment_end") ELSE b1
        ELSE LET bad == \E z \in zones : DecUndefined(b.disabledZones[z])
                 b1 == [b EXCEPT !.disabledZones =
                          [z \in zones |-> Prev(b.disabledZones[z])]]
             IN  IF bad THEN Undefined(b1, "decrement_begin") ELSE b1

\* HANDLE(LpChange)
HandleLpChange(b, info, cx) ==
    LET player == info.player
        amount == info.amount
        lp == b.playerLP[player]
        current == Get(lp, U32(0, cx.garbage))
        \* int32_t deltaAmount = (int32_t)playerLP[player]() - amount
        deltaAmount == U32Sub(current, amount)
        v == IF info.type \in {"CHANGE_DAMAGE", "CHANGE_PAY"}
             THEN IF I32Negative(deltaAmount) THEN U32Zero ELSE deltaAmount
             ELSE IF info.type = "CHANGE_RECOVER" THEN U32Add(current, amount)
             ELSE amount
        bad == (IF info.type # "CHANGE_BECOME" /\ DerefUndefined(lp)
                THEN {"dereference_end"} ELSE {})
               \cup (IF IncUndefined(lp) THEN {"increment_end"} ELSE {})
    IN  IF cx.advancing
        THEN [b EXCEPT !.playerLP[player] = AddOrNext(lp, cx.realtime, v),
                       !.ub = @ \cup bad]
        ELSE [b EXCEPT !.playerLP[player] = Prev(lp),
                       !.ub = @ \cup (IF DecUndefined(lp)
                                      THEN {"decrement_begin"} ELSE {})]

\* HANDLE(NewTurn)
HandleNewTurn(b, info, cx) ==
    IF cx.advancing
    THEN [b EXCEPT !.turn = @ + 1,
                   !.turnPlayer = AddOrNext(@, cx.realtime, info.turn_player),
                   !.ub = @ \cup (IF IncUndefined(b.turnPlayer)
                                  THEN {"increment_end"} ELSE {})]
    ELSE [b EXCEPT !.turnPlayer = Prev(@),
                   !.turn = @ - 1,
                   !.ub = @ \cup (IF DecUndefined(b.turnPlayer)
                                  THEN {"decrement_begin"} ELSE {})]

\* HANDLE(NewPhase)
HandleNewPhase(b, info, cx) ==
    IF cx.advancing
    THEN [b EXCEPT !.phase = AddOrNext(@, cx.realtime, info.phase),
                   !.ub = @ \cup (IF IncUndefined(b.phase)
                                  THEN {"increment_end"} ELSE {})]
    ELSE [b EXCEPT !.phase = Prev(@),
                   !.ub = @ \cup (IF DecUndefined(b.phase)
                                  THEN {"decrement_begin"} ELSE {})]

\* the message kinds of CRITICAL_MSGS()
CriticalMsgs == {"UpdateCard", "AddCard", "RemoveCard", "Draw", "SwapCards",
                 "ShuffleLocation", "ShuffleSetCards", "CounterChange",
                 "DisableZones", "LpChange", "NewTurn", "NewPhase"}

\* void InterpretMsg(const Core::AnyMsg& msg)
InterpretMsg(b, msg, cx) ==
    IF msg.AnyMsg # "Information" THEN b
    ELSE CASE msg.Information = "UpdateCard" -> HandleUpdateCard(b, msg, cx)
           [] msg.Information = "AddCard" -> HandleAddCard(b, msg, cx)
           [] msg.Information = "RemoveCard" -> HandleRemoveCard(b, msg, cx)
           [] msg.Information = "Draw" -> HandleDraw(b, msg, cx)
           [] msg.Information = "SwapCards" -> HandleSwapCards(b, msg, cx)
           [] msg.Information = "ShuffleLocation" ->
                HandleShuffleLocation(b, msg, cx)
           [] msg.Information = "ShuffleSetCards" ->
                HandleShuffleSetCards(b, msg, cx)
           [] msg.Information = "CounterChange" ->
                HandleCounterChange(b, msg, cx)
           [] msg.Information = "DisableZones" -> HandleDisableZones(b, msg, cx)
           [] msg.Information = "LpChange" -> HandleLpChange(b, msg, cx)
           [] msg.Information = "NewTurn" -> HandleNewTurn(b, msg, cx)
           [] msg.Information = "NewPhase" -> HandleNewPhase(b, msg, cx)
           [] OTHER -> b

-----------------------------------------------------------------------------
(* Construction and seeding.                                               *)

\* the loop bound of `for(int con = 0; con < 1; con++)`
DisabledZonesControllers == 1

\* sequence ranges of the zones that can be blocked
LastMonsterZone == 6
LastSpellZone == 5
LastPendulumZone == 1

LastZone(loc) ==
    CASE loc = LocationMonsterZone -> LastMonsterZone
      [] loc = LocationSpellZone -> LastSpellZone
      [] loc = LocationPendulumZone -> LastPendulumZone

\* the initializer of disabledZones
DisabledZonesInit ==
    LET keys == {<<con, loc, seq, -1>> :
                   con \in {c \in 0..1 : c < DisabledZonesControllers},
                   loc \in {LocationMonsterZone, LocationSpellZone,
                            LocationPendulumZone},
                   seq \in 0..LastMonsterZone}
    IN  [z \in {k \in keys : k[3] <= LastZone(k[2])} |-> Sequential(FALSE)]

\* the zones a DisableZones message may name (comment of disabledZones:
\* controller (0, 1), MonsterZone 0..6, SpellZone 0..5, PendulumZone 0..1)
DisableablePlaces ==
    {z \in {<<con, loc, seq, -1>> :
              con \in 0..1,
              loc \in {LocationMonsterZone, LocationSpellZone,
                       LocationPendulumZone},
              seq \in 0..LastMonsterZone} : z[3] <= LastZone(z[2])}

\* a default-constructed DuelBoard
NewBoard ==
    [turn |-> 0,
     playerLP |-> [p \in 0..1 |-> Sequential(U32Zero)],
     turnPlayer |-> Sequential(0), phase |-> Sequential(0),
     deck |-> [p \in 0..1 |-> <<>>], hand |-> [p \in 0..1 |-> <<>>],
     grave |-> [p \in 0..1 |-> <<>>], rmp |-> [p \in 0..1 |-> <<>>],
     eDeck |-> [p \in 0..1 |-> <<>>],
     fieldZones |-> EmptyMap, disabledZones |-> DisabledZonesInit,
     tempCards |-> EmptyMap, nextId |-> 1, stop |-> "", ub |-> {}]

\* void FillPile(uint32_t controller, uint32_t location, int num)
FillPile(b, controller, location, num) ==
    LET old == GetPile(b, controller, location)
        resized == [i \in 1..num |->
                      IF i <= Len(old) THEN old[i]
                      ELSE [Card EXCEPT !.id = b.nextId + i - Len(old) - 1]]
        filled == [i \in 1..num |->
                     [resized[i] EXCEPT
                        !.pos = AddOrNext(@, TRUE, PositionFaceDown)]]
        added == IF num > Len(old) THEN num - Len(old) ELSE 0
    IN  SetPile([b EXCEPT !.nextId = @ + added], controller, location, filled)

\* void SetLP(uint32_t controller, uint32_t lp)
SetLP(b, controller, lp) ==
    [b EXCEPT !.playerLP[controller] = AddOrNext(@, TRUE, lp)]

-----------------------------------------------------------------------------
(* The messages the simulator may send: a message is valid when the places *)
(* it names exist on the board the log has produced so far.                *)

Occupied(b, place) ==
    IF IsPile(place)
    THEN /\ ~GetPileThrows(place[2])
         /\ place[3] < Len(GetPile(b, place[1], place[2]))
    ELSE place \in DOMAIN b.fieldZones

OverlayCount(b, place) ==
    Cardinality({p \in DOMAIN b.fieldZones :
                   /\ p[1] = place[1] /\ p[2] = place[2] /\ p[3] = place[3]
                   /\ p[4] >= 0})

CanHost(b, place) ==
    IF IsPile(place)
    THEN /\ ~GetPileThrows(place[2])
         /\ place[3] <= Len(GetPile(b, place[1], place[2]))
    ELSE IF place[4] >= 0 THEN place[4] <= OverlayCount(b, place)
    ELSE place \notin DOMAIN b.fieldZones

SamePile(p, q) == IsPile(p) /\ IsPile(q) /\ p[1] = q[1] /\ p[2] = q[2]

Valid(b, m) ==
    IF m.AnyMsg # "Information" THEN TRUE
    ELSE CASE m.Information = "UpdateCard" ->
                LET previous == PlaceFromCardInfo(m.previous)
                    current == PlaceFromCardInfo(m.current)
                IN  CASE m.reason = "DECK_TOP" ->
                           IsPile(previous) /\ Occupied(b, previous)
                      [] m.reason = "MOVE" ->
                           /\ previous # current
                           /\ Occupied(b, previous)
                           /\ IF SamePile(previous, current)
                              THEN Occupied(b, current)
                              ELSE CanHost(b, current)
                      [] OTHER -> Occupied(b, previous)
           [] m.Information = "AddCard" ->
                CanHost(b, PlaceFromCardInfo(m.card))
           [] m.Information = "RemoveCard" ->
                Occupied(b, PlaceFromCardInfo(m.card))
           [] m.Information = "Draw" ->
                Len(m.cards) <= Len(b.deck[m.player])
           [] m.Information = "SwapCards" ->
                /\ PlaceFromCardInfo(m.card1) # PlaceFromCardInfo(m.card2)
                /\ Occupied(b, PlaceFromCardInfo(m.card1))
                /\ Occupied(b, PlaceFromCardInfo(m.card2))
           [] m.Information = "ShuffleLocation" ->
                /\ ~GetPileThrows(m.location)
                /\ \/ m.shuffled_cards = <<>>
                   \/ Len(m.shuffled_cards) =
                        Len(GetPile(b, m.player, m.location))
           [] m.Information = "ShuffleSetCards" ->
                /\ \A i \in 1..Len(m.cards_previous) :
                      LET p == PlaceFromCardInfo(m.cards_previous[i])
                      IN  ~IsPile(p) /\ Occupied(b, p)
                /\ \/ m.cards_current = <<>>
                   \/ Len(m.cards_current) = Len(m.cards_previous)
           [] m.Information = "CounterChange" ->
                LET place == PlaceFromProtobufPlace(m.place)
                IN  /\ ~IsPile(place)
                    /\ Occupied(b, place)
                    /\ m.type = "CHANGE_REMOVE" =>
                         LET cs == b.fieldZones[place].counters
                         IN  /\ m.counter.type \in DOMAIN cs
                             /\ cs[m.counter.type].it # 0
                             /\ Get(cs[m.counter.type], 0) >= m.counter.count
           [] m.Information = "DisableZones" ->
                {PlaceFromProtobufPlace(p) : p \in m.places}
                    \subseteq DisableablePlaces
           [] OTHER -> TRUE

\* the board the log produces when it is walked once, in realtime
RECURSIVE Replay(_, _, _)
Replay(b, log, i) ==
    IF i > Len(log) THEN b
    ELSE LET cx == [realtime |-> TRUE, advancing |-> TRUE, state |-> i - 1,
                    garbage |-> 0]
             nb == InterpretMsg(b, log[i], cx)
         IN  Replay([nb EXCEPT !.stop = "", !.ub = {}], log, i + 1)

-----------------------------------------------------------------------------------------------------------------------------------------------------
(* The public operations, as functions on the whole engine.                *)

Engine ==
    [msgs |-> msgs, state |-> state, processedState |-> processedState,
     realtime |-> realtime, advancing |-> advancing, board |-> Board,
     maxState |-> maxState, outcome |-> outcome, ub |-> ub]

\* IsRealtime comparing with <= instead of ==
IsRealtimeLoose(e) == e.state <= e.processedState

\* bool IsRealtime() const
IsRealtime(e) == e.state = e.processedState

\* uint32_t GetTotalStates() const
GetTotalStates(e) == Len(e.msgs)

\* what an undefined operation of a call may do: a hardened build aborts
\* the process; otherwise the iterator walks the circular list and a read
\* of the sentinel node yields an arbitrary value
GarbageReads == {0, 1}
UBOutcomes == [abort : BOOLEAN, garbage : GarbageReads]

\* the outcome in which nothing aborts
Lenient == [abort |-> FALSE, garbage |-> 0]

\* AppendMsg that also rewinds the cursor to the start of the log
AppendCallRewinds(e, msg) ==
    [e EXCEPT !.msgs = Append(@, msg), !.state = 0, !.outcome = "ok",
              !.ub = {}]

\* void AppendMsg(const Core::AnyMsg& msg)
AppendCall(e, msg) ==
    [e EXCEPT !.msgs = Append(@, msg), !.outcome = "ok", !.ub = {}]

\* processedState++ without the test of IsRealtime
ProcessedAfterAlways(e) == e.processedState + 1

\* if((realtime = IsRealtime())) processedState++;
ProcessedAfter(e) ==
    IF IsRealtime(e) THEN e.processedState + 1 ELSE e.processedState

\* the early return taken one message too soon
ForwardReturnsAtLast(e) == Len(e.msgs) = 0 \/ e.state >= Len(e.msgs) - 1

\* if(msgs.size() == 0 || state > msgs.size() - 1) return;
ForwardReturnsEarly(e) == Len(e.msgs) = 0 \/ e.state > Len(e.msgs) - 1

\* if(state == 0) return;
BackwardReturnsEarly(e) == e.state = 0

\* the engine after Forward's InterpretMsg call left the board nb
ForwardInterpreted(e, u, nb) ==
    IF u.abort /\ nb.ub # {}
    THEN [e EXCEPT !.outcome = "aborted", !.ub = nb.ub]
    ELSE [e EXCEPT
            !.realtime = IsRealtime(e),
            !.processedState = ProcessedAfter(e),
            !.advancing = TRUE,
            !.board = [nb EXCEPT !.stop = "", !.ub = {}],
            \* state++ is not reached when InterpretMsg throws
            !.state = IF nb.stop = "threw" THEN @ ELSE @ + 1,
            !.maxState = IF nb.stop # "threw" /\ e.state + 1 > @
                         THEN e.state + 1 ELSE @,
            !.outcome = IF nb.stop = "threw" THEN "threw" ELSE "ok",
            !.ub = nb.ub]

\* void Forward()
ForwardCall(e, u) ==
    IF ForwardReturnsEarly(e) THEN [e EXCEPT !.outcome = "ok", !.ub = {}]
    ELSE ForwardInterpreted(
           e, u,
           InterpretMsg(e.board, e.msgs[e.state + 1],
                        [realtime |-> IsRealtime(e), advancing |-> TRUE,
                         state |-> e.state, garbage |-> u.garbage]))

\* the engine after Backward's InterpretMsg call left the board nb
BackwardInterpreted(e, u, nb) ==
    IF u.abort /\ nb.ub # {}
    THEN [e EXCEPT !.outcome = "aborted", !.ub = nb.ub]
    ELSE [e EXCEPT
            !.realtime = FALSE,
            !.advancing = FALSE,
            !.state = e.state - 1,
            !.board = [nb EXCEPT !.stop = "", !.ub = {}],
            !.outcome = IF nb.stop = "threw" THEN "threw" ELSE "ok",
            !.ub = nb.ub]

\* void Backward()
BackwardCall(e, u) ==
    IF BackwardReturnsEarly(e) THEN [e EXCEPT !.outcome = "ok", !.ub = {}]
    ELSE BackwardInterpreted(
           e, u,
           InterpretMsg(e.board, e.msgs[e.state],
                        [realtime |-> FALSE, advancing |-> FALSE,
                         state |-> e.state - 1, garbage |-> u.garbage]))

SetEngine(e) ==
    /\ msgs' = e.msgs
    /\ state' = e.state
    /\ processedState' = e.processedState
    /\ realtime' = e.realtime
    /\ advancing' = e.advancing
    /\ turn' = e.board.turn
    /\ playerLP' = e.board.playerLP
    /\ turnPlayer' = e.board.turnPlayer
    /\ phase' = e.board.phase
    /\ deck' = e.board.deck
    /\ hand' = e.board.hand
    /\ grave' = e.board.grave
    /\ rmp' = e.board.rmp
    /\ eDeck' = e.board.eDeck
    /\ fieldZones' = e.board.fieldZones
    /\ disabledZones' = e.board.disabledZones
    /\ tempCards' = e.board.tempCards
    /\ nextId' = e.board.nextId
    /\ maxState' = e.maxState
    /\ outcome' = e.outcome
    /\ ub' = e.ub

\* no disabledZones cell has outgrown the explored history length
HistoryBounded ==
    \A z \in DOMAIN disabledZones : Len(disabledZones[z].l) < MaxHistory

\* a call of AppendMsg with a message of `alphabet` that is valid after the
\* log so far, on a board seeded as `seed`
AppendMsgWithin(alphabet, seed, longest) ==
    /\ outcome # "aborted"
    /\ Len(msgs) < longest
    /\ LET tail == Replay(seed, msgs, 1)
       IN  \E msg \in alphabet :
              /\ Valid(tail, msg)
              /\ SetEngine(AppendCall(Engine, msg))

\* a call of AppendMsg while the log is shorter than MaxMsgs
AppendMsg(alphabet, seed) == AppendMsgWithin(alphabet, seed, MaxMsgs)

\* a call of AppendMsg with any message of `alphabet`: AppendMsg tests
\* nothing, so the log may hold messages the board cannot honour
AppendUnchecked(alphabet) ==
    /\ outcome # "aborted"
    /\ Len(msgs) < MaxMsgs
    /\ \E msg \in alphabet : SetEngine(AppendCall(Engine, msg))

\* a call of Forward
Forward ==
    /\ outcome # "aborted"
    /\ HistoryBounded
    /\ \E u \in UBOutcomes : SetEngine(ForwardCall(Engine, u))

\* a call of Backward
Backward ==
    /\ outcome # "aborted"
    /\ \E u \in UBOutcomes : SetEngine(BackwardCall(Engine, u))

\* the state after construction and seeding of board `seed`
InitFrom(seed) ==
    /\ msgs = <<>>
    /\ state = 0
    /\ processedState = 0
    /\ realtime = FALSE
    /\ advancing = FALSE
    /\ turn = seed.turn
    /\ playerLP = seed.playerLP
    /\ turnPlayer = seed.turnPlayer
    /\ phase = seed.phase
    /\ deck = seed.deck
    /\ hand = seed.hand
    /\ grave = seed.grave
    /\ rmp = seed.rmp
    /\ eDeck = seed.eDeck
    /\ fieldZones = seed.fieldZones
    /\ disabledZones = seed.disabledZones
    /\ tempCards = seed.tempCards
    /\ nextId = seed.nextId
    /\ maxState = 0
    /\ outcome = "ok"
    /\ ub = {}

-----
(* Message values (core_msg.pb.h, core_data.pb.h).                         *)

CardInfo(controller, location, sequence, code, position) ==
    [controller |-> controller, location |-> location, sequence |-> sequence,
     overlay_sequence |-> 0, code |-> code, position |-> position]

OverlayInfo(controller, location, sequence, overlay_sequence, code) ==
    [controller |-> controller, location |-> location \cup LocationOverlay,
     sequence |-> sequence, overlay_sequence |-> overlay_sequence,
     code |-> code, position |-> PositionFaceUpAttack]

ProtobufPlace(controller, location, sequence) ==
    [controller |-> controller, location |-> location, sequence |-> sequence]

UpdateCard(reason, previous, current) ==
    [AnyMsg |-> "Information", Information |-> "UpdateCard",
     reason |-> reason, previous |-> previous, current |-> current]

AddCard(card) ==
    [AnyMsg |-> "Information", Information |-> "AddCard", card |-> card]

RemoveCard(card) ==
    [AnyMsg |-> "Information", Information |-> "RemoveCard", card |-> card]

Draw(player, cards) ==
    [AnyMsg |-> "Information", Information |-> "Draw", player |-> player,
     cards |-> cards]

SwapCards(card1, card2) ==
    [AnyMsg |-> "Information", Information |-> "SwapCards", card1 |-> card1,
     card2 |-> card2]

ShuffleLocation(player, location, shuffled_cards) ==
    [AnyMsg |-> "Information", Information |-> "ShuffleLocation",
     player |-> player, location |-> location,
     shuffled_cards |-> shuffled_cards]

ShuffleSetCards(cards_previous, cards_current) ==
    [AnyMsg |-> "Information", Information |-> "ShuffleSetCards",
     cards_previous |-> cards_previous, cards_current |-> cards_current]

CounterChange(type, place, counterType, count) ==
    [AnyMsg |-> "Information", Information |-> "CounterChange", type |-> type,
     place |-> place, counter |-> [type |-> counterType, count |-> count]]

DisableZones(places) ==
    [AnyMsg |-> "Information", Information |-> "DisableZones",
     places |-> places]

LpChange(player, type, amount) ==
    [AnyMsg |-> "Information", Information |-> "LpChange", player |-> player,
     type |-> type, amount |-> amount]

NewTurn(turn_player) ==
    [AnyMsg |-> "Information", Information |-> "NewTurn",
     turn_player |-> turn_player]

NewPhase(p) ==
    [AnyMsg |-> "Information", Information |-> "NewPhase", phase |-> p]

\* a non-critical Information message
Hint == [AnyMsg |-> "Information", Information |-> "Hint"]

\* an AnyMsg that is not an Information
Request == [AnyMsg |-> "Request"]

-----------------------------------------------------------------------------------------------------------------------------------------------------
(* Spec: a duel.  Player 0 starts with a deck of two cards, one card in    *)
(* hand and 8000 life points; a card is drawn and summoned, a token comes  *)
(* and goes, zones are blocked, turns pass.                                *)

Hand0 == CardInfo(0, LocationHand, 0, 0, PositionFaceDown)
Monster2 == CardInfo(0, LocationMonsterZone, 2, 111, PositionFaceUpAttack)
Grave0 == CardInfo(0, LocationGraveyard, 0, 111, PositionFaceUpAttack)
Token3 == CardInfo(0, LocationMonsterZone, 3, 222, PositionFaceUpAttack)

ZonesA == {ProtobufPlace(0, LocationMonsterZone, 2)}
ZonesB == {ProtobufPlace(0, LocationSpellZone, 0)}

Seed ==
    SetLP(SetLP(FillPile(FillPile(NewBoard, 0, LocationMainDeck, 2),
                         0, LocationHand, 1),
                0, U32(0, 8000)),
          1, U32(0, 8000))

Alphabet ==
    {Draw(0, <<[code |-> 11]>>),
     UpdateCard("MOVE", Hand0, Monster2),
     AddCard(Token3),
     RemoveCard(Token3),
     DisableZones(ZonesA),
     DisableZones(ZonesB),
     NewTurn(1),
     Hint}

Init == InitFrom(Seed)

Next == AppendMsg(Alphabet, Seed) \/ Forward \/ Backward

Spec == Init /\ [][Next]_vars

-----------------------------------------------------------------------------
(* SpecLp: life-point arithmetic over the whole 32-bit range, phases and   *)
(* messages that are not Information.                                      *)

\* 3000000000, a value above 2^31
ThreeBillion == U32(45776, 24064)

SeedLp == SetLP(SetLP(NewBoard, 0, U32(0, 1000)), 1, U32(0, 8000))

AlphabetLp ==
    {LpChange(0, type, amount) :
       type \in {"CHANGE_DAMAGE", "CHANGE_PAY", "CHANGE_RECOVER",
                 "CHANGE_BECOME"},
       amount \in {U32(0, 4000), ThreeBillion}}
    \cup {NewPhase(2), Request}

InitLp == InitFrom(SeedLp)

NextLp == AppendMsg(AlphabetLp, SeedLp) \/ Forward \/ Backward

SpecLp == InitLp /\ [][NextLp]_vars

-----------------------------------------------------------------------------
(* SpecPiles: moves, swaps, draws and shuffles among the piles.  Player 0  *)
(* starts with three cards in hand and two in the deck.                    *)

HandAt(i) == CardInfo(0, LocationHand, i, 50 + i, PositionFaceDown)
DeckAt(i) == CardInfo(0, LocationMainDeck, i, 60 + i, PositionFaceDown)

SeedPiles ==
    FillPile(FillPile(NewBoard, 0, LocationHand, 3), 0, LocationMainDeck, 2)

AlphabetPiles ==
    {UpdateCard("MOVE", HandAt(2), HandAt(0)),
     UpdateCard("MOVE", HandAt(0), HandAt(2)),
     UpdateCard("MOVE", HandAt(0), Grave0),
     UpdateCard("MOVE", DeckAt(1), HandAt(0)),
     UpdateCard("DECK_TOP", DeckAt(0), DeckAt(0)),
     UpdateCard("DECK_TOP", DeckAt(1), DeckAt(1)),
     SwapCards(HandAt(0), HandAt(2)),
     SwapCards(HandAt(0), DeckAt(0)),
     ShuffleLocation(0, LocationMainDeck, <<>>),
     Draw(0, <<[code |-> 11], [code |-> 12]>>)}

InitPiles == InitFrom(SeedPiles)

NextPiles == AppendMsg(AlphabetPiles, SeedPiles) \/ Forward \/ Backward

SpecPiles == InitPiles /\ [][NextPiles]_vars

-----------------------------------------------------------------------------
(* SpecField: cards on the field, with an overlay stack under monster      *)
(* zone 2.  Player 0 starts with one card in hand.                         *)

Overlay(i) == OverlayInfo(0, LocationMonsterZone, 2, i, 300 + i)
Monster4 == CardInfo(0, LocationMonsterZone, 4, 111, PositionFaceUpAttack)

SeedField == FillPile(NewBoard, 0, LocationHand, 1)

AlphabetField ==
    {AddCard(Monster2),
     AddCard(Overlay(0)),
     AddCard(Overlay(1)),
     RemoveCard(Overlay(0)),
     UpdateCard("MOVE", Overlay(0), Grave0),
     UpdateCard("MOVE", Hand0, Overlay(0)),
     UpdateCard("MOVE", Monster2, Monster4),
     UpdateCard("POS_CHANGE", Monster2, Monster2),
     UpdateCard("SET", Monster2,
                CardInfo(0, LocationMonsterZone, 2, 0, PositionFaceDown)),
     ShuffleSetCards(<<Monster2>>, <<>>),
     ShuffleSetCards(<<Monster2>>, <<Monster4>>),
     SwapCards(Monster2, Hand0)}

InitField == InitFrom(SeedField)

NextField == AppendMsg(AlphabetField, SeedField) \/ Forward \/ Backward

SpecField == InitField /\ [][NextField]_vars

-----------------------------------------------------------------------------
(* SpecCounters: counters on a monster that is summoned from the hand,     *)
(* sent to the graveyard, removed and added.                               *)

CounterPlace == ProtobufPlace(0, LocationMonsterZone, 2)

SeedCounters == FillPile(NewBoard, 0, LocationHand, 1)

AlphabetCounters ==
    {UpdateCard("MOVE", Hand0, Monster2),
     UpdateCard("MOVE", Monster2, Grave0),
     AddCard(Monster2),
     RemoveCard(Monster2),
     CounterChange("CHANGE_ADD", CounterPlace, 7, 2),
     CounterChange("CHANGE_ADD", CounterPlace, 7, 3),
     CounterChange("CHANGE_REMOVE", CounterPlace, 7, 1),
     CounterChange("CHANGE_ADD", CounterPlace, 8, 1)}

InitCounters == InitFrom(SeedCounters)

NextCounters == AppendMsg(AlphabetCounters, SeedCounters) \/ Forward \/ Backward

SpecCounters == InitCounters /\ [][NextCounters]_vars

-----------------------------------------------------------------------------
(* SpecTemp: a monster is added, receives counters, is removed and another *)
(* is added at its place; the same with a card of the hand.                *)

HandNew == CardInfo(0, LocationHand, 0, 333, PositionFaceUpAttack)

SeedTemp == FillPile(NewBoard, 0, LocationHand, 1)

AlphabetTemp ==
    {AddCard(Monster2),
     RemoveCard(Monster2),
     CounterChange("CHANGE_ADD", CounterPlace, 7, 2),
     AddCard(HandNew),
     RemoveCard(Hand0)}

InitTemp == InitFrom(SeedTemp)

NextTemp ==
    \/ AppendMsgWithin(AlphabetTemp, SeedTemp, MaxMsgsLong)
    \/ Forward
    \/ Backward

SpecTemp == InitTemp /\ [][NextTemp]_vars

-----------------------------------------------------------------------------
(* SpecFaults: logs that are not checked before they are appended: a move  *)
(* from a place to itself, and messages that address monster zone 2 while  *)
(* no card is there.  Player 0 starts with one card in hand.               *)

AlphabetFaults ==
    {UpdateCard("MOVE", Hand0, Monster2),
     UpdateCard("MOVE", Monster2, Monster2),
     UpdateCard("POS_CHANGE", Monster2, Monster2),
     CounterChange("CHANGE_ADD", CounterPlace, 7, 2),
     RemoveCard(Monster2),
     ShuffleSetCards(<<Monster2>>, <<>>)}

NextFaults == AppendUnchecked(AlphabetFaults) \/ Forward \/ Backward

SpecFaults == InitCounters /\ [][NextFaults]_vars

-----------------------------------------------------------------------------
(* SpecDraw: draws of one and of two cards from a deck of three, between   *)
(* moves from the hand to the graveyard, a reveal of the deck's top card   *)
(* and a shuffle of the deck.  Player 0 starts with one card in hand.      *)

SeedDraw ==
    FillPile(FillPile(NewBoard, 0, LocationHand, 1), 0, LocationMainDeck, 3)

AlphabetDraw ==
    {Draw(0, <<[code |-> 11], [code |-> 12]>>),
     Draw(0, <<[code |-> 13]>>),
     UpdateCard("MOVE", Hand0, Grave0),
     UpdateCard("DECK_TOP", DeckAt(0), DeckAt(0)),
     ShuffleLocation(0, LocationMainDeck, <<>>)}

InitDraw == InitFrom(SeedDraw)

NextDraw ==
    \/ AppendMsgWithin(AlphabetDraw, SeedDraw, MaxMsgsLong)
    \/ Forward
    \/ Backward

SpecDraw == InitDraw /\ [][NextDraw]_vars

-----------------------------------------------------------------------------
(* What an observer reads.                                                 *)

\* the value a cell reads, <<>> when its iterator is at l.end()
Read(s) == IF s.it = 0 THEN <<>> ELSE <<s.l[s.it]>>

\* a counter cell at its sentinel reads like a counter never seen
ObsCounters(c) ==
    {<<t, Read(c.counters[t])>> : t \in DOMAIN c.counters}
        \ {<<t, <<0>>>> : t \in DOMAIN c.counters}

ObsCard(c) ==
    [id |-> c.id, cells |-> [n \in CellNames |-> Read(c[n])],
     counters |-> ObsCounters(c)]

ObsPile(pile) == [i \in 1..Len(pile) |-> ObsCard(pile[i])]

Observable(e) ==
    [deck |-> [p \in 0..1 |-> ObsPile(e.board.deck[p])],
     hand |-> [p \in 0..1 |-> ObsPile(e.board.hand[p])],
     grave |-> [p \in 0..1 |-> ObsPile(e.board.grave[p])],
     rmp |-> [p \in 0..1 |-> ObsPile(e.board.rmp[p])],
     eDeck |-> [p \in 0..1 |-> ObsPile(e.board.eDeck[p])],
     fieldZones |-> [p \in DOMAIN e.board.fieldZones |->
                       ObsCard(e.board.fieldZones[p])],
     disabledZones |-> [z \in DOMAIN e.board.disabledZones |->
                          Read(e.board.disabledZones[z])],
     playerLP |-> [p \in 0..1 |-> Read(e.board.playerLP[p])],
     turn |-> e.board.turn,
     turnPlayer |-> Read(e.board.turnPlayer),
     phase |-> Read(e.board.phase)]

\* k calls of Forward, k calls of Backward
RECURSIVE ForwardN(_, _)
ForwardN(e, k) == IF k = 0 THEN e ELSE ForwardN(ForwardCall(e, Lenient), k - 1)

RECURSIVE BackwardN(_, _)
BackwardN(e, k) ==
    IF k = 0 THEN e ELSE BackwardN(BackwardCall(e, Lenient), k - 1)

\* the step is a Forward call that interpreted a message
ForwardStep == state' = state + 1

\* the step is a Backward call that interpreted a message
BackwardStep == state' = state - 1

\* the Information case of a message, "" when it is not an Information
Kind(m) == IF m.AnyMsg = "Information" THEN m.Information ELSE ""

\* the number of containers slots that hold the card of identity id
Homes(id) ==
    LET InPile(pile) == Cardinality({i \in 1..Len(pile) : pile[i].id = id})
        piles == <<deck, hand, grave, rmp, eDeck>>
        Sum(p) == InPile(p[0]) + InPile(p[1])
    IN  Sum(deck) + Sum(hand) + Sum(grave) + Sum(rmp) + Sum(eDeck)
        + Cardinality({p \in DOMAIN fieldZones : fieldZones[p].id = id})
        + Cardinality({t \in DOMAIN tempCards : tempCards[t].id = id})

-----------------------------------------------------------------------------
(* The claims.                                                             *)

\* C1 (round trip): from every reachable state, k Forward calls followed by
\* k Backward calls leave every observable datum as it was: piles, field
\* zones, the reading of every cell, disabled zones, LP, turn, turn player
\* and phase.
C1_RoundTrip ==
    \A k \in 1..MaxMsgs :
        (outcome # "aborted" /\ state + k <= Len(msgs)) =>
            Observable(BackwardN(ForwardN(Engine, k), k)) = Observable(Engine)

\* C2 (cursor bound): after every call, 0 <= state <= len(msgs) and
\* state <= processedState <= len(msgs).
C2_CursorBound ==
    /\ 0 <= state
    /\ state <= Len(msgs)
    /\ state <= processedState
    /\ processedState <= Len(msgs)

\* C2: the cursor is inside the log, below the high-water mark, which is
\* itself below the end of the log.
C2_Witness == 0 < state /\ state < processedState /\ processedState < Len(msgs)

\* C3 (monotone high-water mark): processedState never decreases and always
\* equals the largest value state has had.
C3_HighWaterMark ==
    /\ [](processedState = maxState)
    /\ [][processedState' >= processedState]_vars

\* C3: the cursor has gone forward at least twice and all the way back.
C3_Witness == state = 0 /\ processedState >= 2 /\ maxState = processedState

\* C5 (append safety): a call that lengthens the log appends one message and
\* changes nothing else: state, processedState, IsRealtime, the piles, the
\* field, tempCards, disabledZones, LP, turn, turn player and phase.
C5_AppendSafety ==
    [][Len(msgs') # Len(msgs) =>
         /\ Len(msgs') = Len(msgs) + 1
         /\ SubSeq(msgs', 1, Len(msgs)) = msgs
         /\ state' = state
         /\ processedState' = processedState
         /\ IsRealtime(Engine') = IsRealtime(Engine)
         /\ UNCHANGED <<turn, playerLP, turnPlayer, phase, deck, hand, grave,
                        rmp, eDeck, fieldZones, disabledZones, tempCards>>]_vars

\* C5: messages were appended while the cursor was not at the end of the log
\* (nothing has been processed, yet the log holds two messages or more).
C5_Witness == Len(msgs) >= 2 /\ processedState = 0

\* C4 (unique home): after every handler that completed with defined
\* behaviour, every card that was seeded or added is in exactly one pile slot,
\* fieldZones entry or tempCards entry.
C4_UniqueHome ==
    (ub = {} /\ outcome = "ok") => \A id \in 1..(nextId - 1) : Homes(id) = 1

\* C6 (disabled-zones domain): the keys of disabledZones are always the 30
\* places {0, 1} x {MonsterZone 0..6, SpellZone 0..5, PendulumZone 0..1}.
C6_DisabledZonesDomain ==
    /\ DOMAIN disabledZones = DisableablePlaces
    /\ Cardinality(DOMAIN disabledZones) = 30

\* C7 (LP clamp): a Forward call over LpChange DAMAGE or PAY makes the LP
\* read max(0, current - amount), and a following Backward call makes it read
\* the previous value again.
C7_LpClamp ==
    [][(ForwardStep /\ Kind(msgs[state + 1]) = "LpChange"
        /\ msgs[state + 1].type \in {"CHANGE_DAMAGE", "CHANGE_PAY"}) =>
         LET m == msgs[state + 1]
             current == Read(playerLP[m.player])[1]
             expected == IF U32Less(current, m.amount) THEN U32Zero
                         ELSE U32Sub(current, m.amount)
         IN  /\ Read(playerLP'[m.player]) = <<expected>>
             /\ Read(BackwardCall(Engine', Lenient).board.playerLP[m.player])
                  = <<current>>]_vars

\* C8 (density): every pile occupies the indices [0, size) and the overlays
\* of every field place occupy overlay_sequence 0..k-1 without a gap.
C8_Density ==
    /\ \A p \in 0..1 :
          \A pile \in {deck[p], hand[p], grave[p], rmp[p], eDeck[p]} :
              DOMAIN pile = 1..Len(pile)
    /\ \A place \in DOMAIN fieldZones :
          \A j \in 0..(place[4] - 1) :
              <<place[1], place[2], place[3], j>> \in DOMAIN fieldZones

\* a disabledZones cell exists for the zone and reads true
ZoneReadsTrue(zones, z) == z \in DOMAIN zones /\ Read(zones[z]) = <<TRUE>>

\* C9 (DisableZones values): after a Forward call over a DisableZones
\* message, realtime or not, exactly the zones the message lists read true.
C9_DisableZonesValues ==
    [][(ForwardStep /\ Kind(msgs[state + 1]) = "DisableZones") =>
         LET listed == {PlaceFromProtobufPlace(p) :
                          p \in msgs[state + 1].places}
         IN  \A z \in DisableablePlaces :
                 ZoneReadsTrue(disabledZones', z) <=> z \in listed]_vars

\* the counter of a type on a card: <<>> when the type was never seen
CounterReading(card, type) ==
    IF type \in DOMAIN card.counters THEN Read(card.counters[type]) ELSE <<>>

\* C10 (counter arithmetic): a Forward call over CounterChange ADD with count
\* c makes the counter read previous + c, or c when the type was never seen;
\* over REMOVE it makes the counter read previous - c.
C10_CounterArithmetic ==
    [][(ForwardStep /\ Kind(msgs[state + 1]) = "CounterChange"
        /\ PlaceFromProtobufPlace(msgs[state + 1].place) \in DOMAIN fieldZones
        /\ ub' = {}) =>
         LET m == msgs[state + 1]
             place == PlaceFromProtobufPlace(m.place)
             before == CounterReading(fieldZones[place], m.counter.type)
             after == CounterReading(fieldZones'[place], m.counter.type)
         IN  IF m.type = "CHANGE_ADD"
             THEN after = IF before = <<>> THEN <<m.counter.count>>
                          ELSE <<before[1] + m.counter.count>>
             ELSE before # <<>> /\ after = <<before[1] - m.counter.count>>]_vars

\* the reference GetCard returns for a place
RefOf(place) == IF IsPile(place) THEN PileRef(place) ELSE FieldRef(place)

\* the cards in the piles and in fieldZones of a board
BoardCards(b) ==
    UNION {{pile[i] : i \in 1..Len(pile)} :
             pile \in {b.deck[0], b.deck[1], b.hand[0], b.hand[1],
                       b.grave[0], b.grave[1], b.rmp[0], b.rmp[1],
                       b.eDeck[0], b.eDeck[1]}}
    \cup {b.fieldZones[p] : p \in DOMAIN b.fieldZones}

\* their identities
BoardIds(b) == {c.id : c \in BoardCards(b)}

\* the next two messages remove the card at a place and add a card there
RemoveThenAddAhead ==
    /\ outcome # "aborted"
    /\ state + 2 <= Len(msgs)
    /\ Kind(msgs[state + 1]) = "RemoveCard"
    /\ Kind(msgs[state + 2]) = "AddCard"
    /\ PlaceFromCardInfo(msgs[state + 1].card)
         = PlaceFromCardInfo(msgs[state + 2].card)
    /\ Occupied(Board, PlaceFromCardInfo(msgs[state + 1].card))

\* C11 (remove-then-add restores identity): when the card at p is removed by
\* a Forward step over RemoveCard and another card is added at p by a Forward
\* step over AddCard, two Backward steps put the original card back at p with
\* the code and position history and the counters it had, and the added card
\* is on the board no more.
C11_RemoveThenAdd ==
    RemoveThenAddAhead =>
        LET p == PlaceFromCardInfo(msgs[state + 1].card)
            there == ForwardN(Engine, 2)
            back == BackwardN(there, 2)
        IN  /\ Occupied(there.board, p)
            /\ CardAt(there.board, RefOf(p)).id # CardAt(Board, RefOf(p)).id
            /\ Occupied(back.board, p)
            /\ CardAt(back.board, RefOf(p)) = CardAt(Board, RefOf(p))
            /\ BoardIds(back.board) = BoardIds(Board)

\* C11: the two Backward steps have been made: the cursor is before a
\* RemoveCard and an AddCard at one place that were both walked, the original
\* card is at the place and the added card waits in tempCards.
C11_Witness ==
    /\ RemoveThenAddAhead
    /\ processedState >= state + 2
    /\ TempPlace(state + 1, PlaceFromCardInfo(msgs[state + 1].card))
         \in DOMAIN tempCards
    /\ DOMAIN CardAt(Board, RefOf(PlaceFromCardInfo(msgs[state + 1].card)))
                .counters # {}

-----------------------------------------------------------------------------
(* C12.  Cursor-bounds safety: no call of Forward or Backward over a valid *)
(* log retreats a temporal cell whose iterator is at the first element of  *)
(* its list (the initial value) or advances, without appending, a cell     *)
(* whose iterator has left the last element; ClearAllCounters' walk over   *)
(* the counter cells of a card returning to its pile is included.          *)
C12_CursorBounds == ub \cap {"decrement_begin", "increment_end"} = {}

-----------------------------------------------------------------------------
(* C13.  Uniform cell cursors: after every completed handler, every cell   *)
(* (the sixteen named cells and every counter cell) of every card in a     *)
(* pile or in fieldZones has made as many steps from its initial element   *)
(* as the engine has made Forward steps less Backward steps, which is      *)
(* `state`.                                                                *)
C13_UniformCursors ==
    (outcome = "ok" /\ ub = {} /\ maxState > 0) =>
        \A c \in BoardCards(Board) :
            /\ \A n \in CellNames : c[n].it - 1 = state
            /\ \A t \in DOMAIN c.counters : c.counters[t].it - 1 = state

-----------------------------------------------------------------------------
(* C14.  Step semantics: Forward called with state = Len(msgs) (an empty   *)
(* log included) and Backward called with state = 0 leave state,           *)
(* processedState and the board as they are; any other Forward call adds 1 *)
(* to state and leaves the board InterpretMsg makes of the message at the  *)
(* old state, any other Backward call takes 1 from state and leaves the    *)
(* board InterpretMsg makes of the message at the new state.               *)
C14_StepSemantics ==
    outcome # "aborted" =>
        /\ IF state = Len(msgs)
           THEN /\ ForwardCall(Engine, Lenient).state = state
                /\ ForwardCall(Engine, Lenient).processedState = processedState
                /\ ForwardCall(Engine, Lenient).board = Board
           ELSE /\ ForwardCall(Engine, Lenient).state = state + 1
                /\ ForwardCall(Engine, Lenient).board =
                     [InterpretMsg(Board, msgs[state + 1],
                                   [realtime |-> state = processedState,
                                    advancing |-> TRUE, state |-> state,
                                    garbage |-> Lenient.garbage])
                        EXCEPT !.stop = "", !.ub = {}]
        /\ IF state = 0
           THEN /\ BackwardCall(Engine, Lenient).state = state
                /\ BackwardCall(Engine, Lenient).processedState = processedState
                /\ BackwardCall(Engine, Lenient).board = Board
           ELSE /\ BackwardCall(Engine, Lenient).state = state - 1
                /\ BackwardCall(Engine, Lenient).processedState = processedState
                /\ BackwardCall(Engine, Lenient).board =
                     [InterpretMsg(Board, msgs[state],
                                   [realtime |-> FALSE, advancing |-> FALSE,
                                    state |-> state - 1,
                                    garbage |-> Lenient.garbage])
                        EXCEPT !.stop = "", !.ub = {}]

\* C14: Forward has walked a log of two messages or more to its end, where
\* another Forward call returns early and a Backward call interprets the
\* last message.
C14_Witness ==
    /\ outcome = "ok"
    /\ Len(msgs) >= 2
    /\ state = Len(msgs)
    /\ processedState = state
    /\ advancing

-----------------------------------------------------------------------------
(* C15.  Failure atomicity: when the message a Forward call interprets, or *)
(* the message a Backward call interprets, is an UpdateCard MOVE whose     *)
(* previous place is its current place, the call fails and leaves state,   *)
(* processedState and the whole board (every card, every cell, tempCards)  *)
(* as they were before the call.                                           *)
C15_FailureAtomicity ==
    LET IllegalMove(m) ==
            /\ Kind(m) = "UpdateCard"
            /\ m.reason = "MOVE"
            /\ PlaceFromCardInfo(m.previous) = PlaceFromCardInfo(m.current)
    IN  /\ (outcome # "aborted" /\ state < Len(msgs)
              /\ IllegalMove(msgs[state + 1])) =>
               /\ ForwardCall(Engine, Lenient).outcome = "threw"
               /\ ForwardCall(Engine, Lenient).state = state
               /\ ForwardCall(Engine, Lenient).processedState = processedState
               /\ ForwardCall(Engine, Lenient).board = Board
        /\ (outcome # "aborted" /\ state > 0 /\ IllegalMove(msgs[state])) =>
               /\ BackwardCall(Engine, Lenient).outcome = "threw"
               /\ BackwardCall(Engine, Lenient).state = state
               /\ BackwardCall(Engine, Lenient).processedState = processedState
               /\ BackwardCall(Engine, Lenient).board = Board

-----------------------------------------------------------------------------
(* C16.  MissingCard: when the message a Forward call interprets looks up  *)
(* a field place that holds no card (CounterChange at its place,           *)
(* UpdateCard POS_CHANGE or SET at its previous place, ShuffleSetCards at  *)
(* a place of cards_previous, RemoveCard at its card's place), the call    *)
(* fails, and fieldZones and tempCards have the keys they had.             *)
C16_MissingCard ==
    LET Addressed(m) ==
            CASE Kind(m) = "CounterChange" -> {PlaceFromProtobufPlace(m.place)}
              [] Kind(m) = "UpdateCard" /\ m.reason \in {"POS_CHANGE", "SET"} ->
                   {PlaceFromCardInfo(m.previous)}
              [] Kind(m) = "ShuffleSetCards" ->
                   {PlaceFromCardInfo(m.cards_previous[i]) :
                      i \in 1..Len(m.cards_previous)}
              [] Kind(m) = "RemoveCard" -> {PlaceFromCardInfo(m.card)}
              [] OTHER -> {}
    IN  (/\ outcome # "aborted"
         /\ state < Len(msgs)
         /\ \E p \in Addressed(msgs[state + 1]) :
               ~IsPile(p) /\ ~Occupied(Board, p)) =>
            /\ ForwardCall(Engine, Lenient).outcome = "threw"
            /\ DOMAIN ForwardCall(Engine, Lenient).board.fieldZones
                 = DOMAIN fieldZones
            /\ DOMAIN ForwardCall(Engine, Lenient).board.tempCards
                 = DOMAIN tempCards

-----------------------------------------------------------------------------
(* C17.  UpdateCard MOVE: when the message at the cursor is a MOVE between *)
(* two distinct places, previous occupied, then after a Forward call the   *)
(* card that was at previous is the card at current, its code and pos read *)
(* the message's code and position, and previous holds it no more; after   *)
(* the Backward call that follows, the same card is at previous again and  *)
(* its code and pos read what they read before.                            *)
C17_UpdateCardMove ==
    (/\ outcome # "aborted"
     /\ state < Len(msgs)
     /\ Kind(msgs[state + 1]) = "UpdateCard"
     /\ msgs[state + 1].reason = "MOVE"
     /\ Valid(Board, msgs[state + 1])) =>
        LET previous == RefOf(PlaceFromCardInfo(msgs[state + 1].previous))
            current == RefOf(PlaceFromCardInfo(msgs[state + 1].current))
            there == ForwardCall(Engine, Lenient).board
            back == BackwardCall(ForwardCall(Engine, Lenient), Lenient).board
        IN  /\ RefValid(there, current)
            /\ CardAt(there, current).id = CardAt(Board, previous).id
            /\ Read(CardAt(there, current).code)
                 = <<msgs[state + 1].current.code>>
            /\ Read(CardAt(there, current).pos)
                 = <<msgs[state + 1].current.position>>
            /\ RefValid(there, previous) =>
                 CardAt(there, previous).id # CardAt(Board, previous).id
            /\ RefValid(back, previous)
            /\ CardAt(back, previous).id = CardAt(Board, previous).id
            /\ Read(CardAt(back, previous).code)
                 = Read(CardAt(Board, previous).code)
            /\ Read(CardAt(back, previous).pos)
                 = Read(CardAt(Board, previous).pos)

-----------------------------------------------------------------------------
(* C18.  UpdateCard DECK_TOP addressing: when the message at the cursor is *)
(* a DECK_TOP whose previous place is in a pile of n cards with sequence q, *)
(* 0 <= q < n, a Forward call makes no access outside the pile, the card   *)
(* at index n - 1 - q reads the message's code and is otherwise as it was, *)
(* every other card of the pile is as it was; after the Backward call that *)
(* follows, that card's code reads what it read before and the other cards *)
(* are still as they were.                                                 *)
C18_DeckTop ==
    (/\ outcome # "aborted"
     /\ state < Len(msgs)
     /\ Kind(msgs[state + 1]) = "UpdateCard"
     /\ msgs[state + 1].reason = "DECK_TOP"
     /\ Valid(Board, msgs[state + 1])) =>
        LET m == msgs[state + 1]
            q == m.previous.sequence
            pile == GetPile(Board, m.previous.controller, m.previous.location)
            there == ForwardCall(Engine, Lenient)
            after == GetPile(there.board, m.previous.controller,
                             m.previous.location)
            back == GetPile(BackwardCall(there, Lenient).board,
                            m.previous.controller, m.previous.location)
        IN  /\ there.ub = {}
            /\ Len(after) = Len(pile)
            /\ Len(back) = Len(pile)
            /\ \A i \in 1..Len(pile) :
                  IF i = Len(pile) - q
                  THEN /\ Read(after[i].code) = <<m.current.code>>
                       /\ after[i] = [pile[i] EXCEPT !.code = after[i].code]
                       /\ Read(back[i].code) = Read(pile[i].code)
                       /\ back[i] = [pile[i] EXCEPT !.code = back[i].code]
                  ELSE after[i] = pile[i] /\ back[i] = pile[i]

-----------------------------------------------------------------------------
(* C19.  Draw: when the message at the cursor is a Draw of n cards for a   *)
(* player whose deck holds n cards or more, a Forward call takes the       *)
(* last n cards off the deck and leaves them at hand indices handSz ..     *)
(* handSz + n - 1, the deck's last card first, the card at handSz + i      *)
(* reading code cards[i]; the cards that were in the hand and those left   *)
(* in the deck are as they were.  After the Backward call that follows,    *)
(* deck and hand hold the cards they held, in their order, every cell      *)
(* reading what it read.                                                   *)
C19_Draw ==
    (/\ outcome # "aborted"
     /\ state < Len(msgs)
     /\ Kind(msgs[state + 1]) = "Draw"
     /\ Len(msgs[state + 1].cards) <= Len(deck[msgs[state + 1].player])) =>
        LET m == msgs[state + 1]
            n == Len(m.cards)
            oldDeck == deck[m.player]
            oldHand == hand[m.player]
            handSz == Len(oldHand)
            there == ForwardCall(Engine, Lenient)
            back == BackwardCall(there, Lenient)
        IN  /\ there.board.deck[m.player]
                 = SubSeq(oldDeck, 1, Len(oldDeck) - n)
            /\ Len(there.board.hand[m.player]) = handSz + n
            /\ SubSeq(there.board.hand[m.player], 1, handSz) = oldHand
            /\ \A i \in 0..(n - 1) :
                  /\ there.board.hand[m.player][handSz + i + 1].id
                       = oldDeck[Len(oldDeck) - i].id
                  /\ Read(there.board.hand[m.player][handSz + i + 1].code)
                       = <<m.cards[i + 1].code>>
            /\ ObsPile(back.board.deck[m.player]) = ObsPile(oldDeck)
            /\ ObsPile(back.board.hand[m.player]) = ObsPile(oldHand)
            /\ back.state = state

\* C19: a Draw of two cards into an emptied hand has been walked forward
\* and backward: the cursor is before it again, and the two cards are back
\* on the deck with the codes they were drawn with behind their iterators.
C19_Witness ==
    /\ outcome = "ok"
    /\ ub = {}
    /\ state < Len(msgs)
    /\ Kind(msgs[state + 1]) = "Draw"
    /\ Len(msgs[state + 1].cards) = 2
    /\ processedState > state
    /\ ~advancing
    /\ Len(hand[0]) = 0
    /\ Len(deck[0]) = 3
    /\ \A i \in 2..3 : Len(deck[0][i].code.l) > deck[0][i].code.it

-----------------------------------------------------------------------------
(* C20.  SwapCards: when the message at the cursor is a SwapCards of two   *)
(* distinct occupied places card1 and card2, a Forward call makes no       *)
(* access outside a pile, leaves the card that was at card1 at card2 and   *)
(* the card that was at card2 at card1, every cell and counter of both     *)
(* reading what it read, and leaves every other slot of every pile and     *)
(* every other field place with the card it held; the Backward call that   *)
(* follows, which applies the handler again, restores what every place     *)
(* read before.                                                            *)
C20_SwapCards ==
    (/\ outcome # "aborted"
     /\ state < Len(msgs)
     /\ Kind(msgs[state + 1]) = "SwapCards"
     /\ Valid(Board, msgs[state + 1])) =>
        LET r1 == RefOf(PlaceFromCardInfo(msgs[state + 1].card1))
            r2 == RefOf(PlaceFromCardInfo(msgs[state + 1].card2))
            there == ForwardCall(Engine, Lenient)
            back == BackwardCall(there, Lenient)
            Swapped(name, player, i) ==
                \E r \in {r1, r2} :
                    /\ r.pile
                    /\ PileName(r.place[2]) = name
                    /\ r.place[1] = player
                    /\ r.place[3] = i - 1
        IN  /\ there.ub = {}
            /\ RefValid(there.board, r1)
            /\ RefValid(there.board, r2)
            /\ ObsCard(CardAt(there.board, r2)) = ObsCard(CardAt(Board, r1))
            /\ ObsCard(CardAt(there.board, r1)) = ObsCard(CardAt(Board, r2))
            /\ \A name \in {"deck", "hand", "grave", "rmp", "eDeck"} :
                  \A player \in 0..1 :
                     /\ Len(there.board[name][player]) = Len(Board[name][player])
                     /\ \A i \in 1..Len(Board[name][player]) :
                           ~Swapped(name, player, i) =>
                              ObsCard(there.board[name][player][i])
                                = ObsCard(Board[name][player][i])
            /\ DOMAIN there.board.fieldZones = DOMAIN fieldZones
            /\ \A p \in DOMAIN fieldZones \ {r1.place, r2.place} :
                  ObsCard(there.board.fieldZones[p]) = ObsCard(fieldZones[p])
            /\ Observable(back) = Observable(Engine)

-----------------------------------------------------------------------------
(* C21.  tempCards keys never collide.  After every call on a valid log:   *)
(* the key (s, place) of a RemoveCard at index s is in tempCards exactly   *)
(* while state > s, the key of an AddCard at index s exactly while         *)
(* state <= s < processedState, and tempCards has no other key.  So the    *)
(* key a Forward step over RemoveCard or a Backward step over AddCard      *)
(* inserts is absent when the step begins, and the key a Backward step     *)
(* over RemoveCard or a non-realtime Forward step over AddCard extracts is *)
(* present.                                                                *)
C21_TempKeys ==
    LET Key(s) == TempPlace(s, PlaceFromCardInfo(msgs[s + 1].card))
        Removes == {s \in 0..(Len(msgs) - 1) : Kind(msgs[s + 1]) = "RemoveCard"}
        Adds == {s \in 0..(Len(msgs) - 1) : Kind(msgs[s + 1]) = "AddCard"}
    IN  /\ \A s \in Removes : Key(s) \in DOMAIN tempCards <=> state > s
        /\ \A s \in Adds :
              Key(s) \in DOMAIN tempCards <=> (state <= s /\ s < processedState)
        /\ DOMAIN tempCards \subseteq {Key(s) : s \in Removes \cup Adds}
        \* the insertions and extractions of the next call
        /\ (state \in Removes) => Key(state) \notin DOMAIN tempCards
        /\ (state \in Adds /\ state < processedState) =>
              Key(state) \in DOMAIN tempCards
        /\ (state - 1 \in Removes) => Key(state - 1) \in DOMAIN tempCards
        /\ (state - 1 \in Adds) => Key(state - 1) \notin DOMAIN tempCards

\* C21: tempCards holds, at one place, the card a RemoveCard that was walked
\* forward took off the board and the card of a later AddCard that was
\* walked forward and backward.
C21_Witness ==
    /\ outcome = "ok"
    /\ state >= 2
    /\ state < processedState
    /\ Kind(msgs[state]) = "RemoveCard"
    /\ Kind(msgs[state + 1]) = "AddCard"
    /\ PlaceFromCardInfo(msgs[state].card)
         = PlaceFromCardInfo(msgs[state + 1].card)
    /\ TempPlace(state - 1, PlaceFromCardInfo(msgs[state].card))
         \in DOMAIN tempCards
    /\ TempPlace(state, PlaceFromCardInfo(msgs[state + 1].card))
         \in DOMAIN tempCards

-----------------------------------------------------------------------------
(* C22.  Path independence: what an observer reads at a cursor position    *)
(* does not depend on the route to it; in particular, from every state     *)
(* with state > 0, a Backward call followed by a Forward call (a           *)
(* non-realtime walk over the message just undone) leaves piles, field     *)
(* zones, every cell's reading, disabled zones, LP, turn, turn player and  *)
(* phase as they were.                                                     *)
C22_PathIndependence ==
    (outcome # "aborted" /\ state > 0) =>
        Observable(ForwardCall(BackwardCall(Engine, Lenient), Lenient))
            = Observable(Engine)

-----------------------------------------------------------------------------
(* C23.  Realtime tail invariant: whenever state = processedState after a  *)
(* completed call, the iterator of every cell (the cells and counters of   *)
(* every card in a pile or in fieldZones, the disabledZones cells,         *)
(* playerLP, turnPlayer, phase) is at the last element of its list, so     *)
(* that the next AddOrNext(true, v) makes the cell read v.                 *)
C23_RealtimeTail ==
    LET AtTail(s) == s.it = Len(s.l)
    IN  (outcome = "ok" /\ ub = {} /\ state = processedState) =>
            /\ \A c \in BoardCards(Board) :
                  /\ \A n \in CellNames : AtTail(c[n])
                  /\ \A t \in DOMAIN c.counters : AtTail(c.counters[t])
            /\ \A z \in DOMAIN disabledZones : AtTail(disabledZones[z])
            /\ \A p \in 0..1 : AtTail(playerLP[p])
            /\ AtTail(turnPlayer)
            /\ AtTail(phase)

====
